---- MODULE Spec2Model ----
(***************************************************************************)
(* Discussion-forum backend (src/Node.js): signup/login on the User        *)
(* collection, CRUD on the Question collection, replies on the Reply       *)
(* collection.  Every `await` of a handler is a point where other requests *)
(* may run, so a handler is one action per awaited store / bcrypt call.    *)
(* The store is MongoDB through Mongoose: ids are generated by the store,  *)
(* `unique: true` is a unique index, `required: true` rejects undefined    *)
(* and the empty string, save() of a loaded document sends only the paths  *)
(* whose value differs from the loaded one and fails with                  *)
(* DocumentNotFoundError when the document is gone.                        *)
(***************************************************************************)
EXTENDS Integers, Sequences, FiniteSets, TLC

VARIABLES
    users,      \* the User collection, in insertion order
    questions,  \* the Question collection, in insertion order
    replies,    \* the Reply collection, in insertion order
    nextId,     \* the next identifier the store generates for a Question
    req,        \* per connection: the request in flight or its response
    started     \* number of requests accepted so far

vars == <<users, questions, replies, nextId, req, started>>

------------------------------------------------------------------------------
(* Bounds of the model *)

NumSlots == 2
MaxUserRequests == 2
MaxForumRequests == 4
MaxQuestions == 2
MaxReplies == 2

Slots == 1..NumSlots

------------------------------------------------------------------------------
(* Request inputs.  Undefined is a field missing from req.body. *)

Undefined == "undefined"
FirstNames == {"Ann", Undefined}
LastNames == {"Lee", Undefined}
Emails == {"a@x.io", "b@x.io"}
Passwords == {"pw1", "pw2"}
Salts == {1, 2}

SignupBodies ==
    [firstName : FirstNames, lastName : LastNames,
     email : Emails \cup {Undefined}, password : Passwords \cup {Undefined}]

LoginBodies ==
    [email : Emails \cup {Undefined}, password : Passwords \cup {Undefined}]

------------------------------------------------------------------------------
(* Responses *)

Idle ==
    [op |-> "idle", pc |-> "idle", status |-> 0, message |-> ""]

Respond(r, status, message) ==
    [r EXCEPT !.pc = "done", !.status = status, !.message = message]

Free(s) == req[s].pc \in {"idle", "done"}

\* A new request is taken by the first connection that has none in flight
\* (connections are interchangeable), while fewer than max were accepted.
Accepts(s, max) ==
    /\ Free(s)
    /\ \A t \in 1..(s - 1) : ~Free(t)
    /\ started < max

Range(seq) == {seq[i] : i \in 1..Len(seq)}

------------------------------------------------------------------------------
(* Schema validation and bcrypt *)

\* `required: true` on a String path: undefined and "" are both rejected
Required(v) == v # Undefined /\ v # ""

\* bcrypt.hash(plaintext, 10) with the salt it drew
hash(plaintext, salt) == [salt |-> salt, plain |-> plaintext]

\* bcrypt.compare: hash the plaintext with the digest's salt and compare
compare(plaintext, digest) == hash(plaintext, digest.salt) = digest

UserValid(u) ==
    Required(u.firstName) /\ Required(u.lastName) /\ Required(u.email)

\* User.findOne({ email }): is there a stored user with this email
UserExists(email) == \E u \in Range(users) : u.email = email

\* User.findOne({ email }): the first stored user with this email
FindUser(email) ==
    LET i == CHOOSE i \in 1..Len(users) :
                 /\ users[i].email = email
                 /\ \A j \in 1..(i - 1) : users[j].email # email
    IN users[i]

\* a User collection without the unique index
NoUniqueIndex(u) == TRUE

\* the unique index on User.email (E11000 duplicate key on insert)
UniqueIndexOK(u) == \A v \in Range(users) : v.email # u.email

------------------------------------------------------------------------------
(* POST /signup *)

SignupFind(s) ==
    /\ Accepts(s, MaxUserRequests)
    /\ \E body \in SignupBodies :
         LET r == [op |-> "signup", pc |-> "hash", body |-> body,
                   status |-> 0, message |-> ""]
         IN req' = [req EXCEPT ![s] =
                      IF UserExists(body.email)
                      THEN Respond(r, 400, "Email already in use")
                      ELSE r]
    /\ started' = started + 1
    /\ UNCHANGED <<users, questions, replies, nextId>>

SignupHash(s) ==
    /\ req[s].op = "signup" /\ req[s].pc = "hash"
    /\ IF req[s].body.password = Undefined
       THEN req' = [req EXCEPT ![s] = Respond(@, 500, "Error during signup")]
       ELSE \E salt \in Salts :
              req' = [req EXCEPT ![s] =
                        [op |-> "signup", pc |-> "save", body |-> @.body,
                         newUser |-> [firstName |-> @.body.firstName,
                                      lastName |-> @.body.lastName,
                                      email |-> @.body.email,
                                      password |-> hash(@.body.password, salt)],
                         status |-> 0, message |-> ""]]
    /\ UNCHANGED <<users, questions, replies, nextId, started>>

SignupSave(s) ==
    /\ req[s].op = "signup" /\ req[s].pc = "save"
    /\ LET r == [op |-> "signup", pc |-> "save", body |-> req[s].body,
                 status |-> 0, message |-> ""]
       IN IF UserValid(req[s].newUser) /\ UniqueIndexOK(req[s].newUser)
          THEN /\ users' = Append(users, req[s].newUser)
               /\ req' = [req EXCEPT ![s] =
                            Respond(r, 201, "User registered successfully!")]
          ELSE /\ users' = users
               /\ req' = [req EXCEPT ![s] =
                            Respond(r, 500, "Error during signup")]
    /\ UNCHANGED <<questions, replies, nextId, started>>

------------------------------------------------------------------------------
(* POST /login *)

LoginFind(s) ==
    /\ Accepts(s, MaxUserRequests)
    /\ \E body \in LoginBodies :
         LET r == [op |-> "login", pc |-> "compare", body |-> body,
                   status |-> 0, message |-> ""]
         IN req' = [req EXCEPT ![s] =
                      IF ~UserExists(body.email)
                      THEN Respond(r, 400, "Invalid email or password")
                      ELSE [op |-> "login", pc |-> "compare", body |-> body,
                            user |-> FindUser(body.email),
                            status |-> 0, message |-> ""]]
    /\ started' = started + 1
    /\ UNCHANGED <<users, questions, replies, nextId>>

\* a login that tells the client which of the two checks failed
LoginResultLeaky(r) ==
    IF r.body.password = Undefined
    THEN Respond(r, 500, "Error during login")
    ELSE IF ~compare(r.body.password, r.user.password)
    THEN Respond(r, 400, "Invalid password")
    ELSE Respond(r, 200, "Login successful")

\* lines 91-97: the response once bcrypt.compare has settled
LoginResult(r) ==
    IF r.body.password = Undefined
    THEN Respond(r, 500, "Error during login")
    ELSE IF ~compare(r.body.password, r.user.password)
    THEN Respond(r, 400, "Invalid email or password")
    ELSE Respond(r, 200, "Login successful")

LoginCompare(s) ==
    /\ req[s].op = "login" /\ req[s].pc = "compare"
    /\ req' = [req EXCEPT ![s] = LoginResult(@)]
    /\ UNCHANGED <<users, questions, replies, nextId, started>>

------------------------------------------------------------------------------
(* Question and Reply collections *)

\* Identifiers a client may put in the path: -1 stands for a string that is
\* no ObjectId (the cast fails), 0 for a well-formed ObjectId the store never
\* generated, 1..MaxQuestions for the ones it generates.
Ids == (-1)..MaxQuestions
ValidObjectId(id) == id >= 0

Titles == {"T", ""}
Descriptions == {"D", Undefined}
Contents == {"hi", Undefined}
PatchFields == {"resolved", "upvotes"}

\* values a client sends for upvotes; the handler only stores and compares
\* them, so two distinct values show every case
UpvoteValues == {0, 1}

\* req.body of PATCH: `has` are the keys present; a key not present carries
\* no value (normalised to the first value of its type)
PatchBodies ==
    {b \in [has : SUBSET PatchFields, resolved : BOOLEAN,
            upvotes : UpvoteValues] :
        /\ ("resolved" \notin b.has => b.resolved = FALSE)
        /\ ("upvotes" \notin b.has => b.upvotes = 0)}

QuestionIds == {q.id : q \in Range(questions)}

\* Question.findById(id): position of the document, 0 when there is none
FindById(id) ==
    IF id \in QuestionIds
    THEN CHOOSE i \in 1..Len(questions) : questions[i].id = id
    ELSE 0

\* a schema whose description is not required
QuestionValidTitleOnly(title, description) == Required(title)

QuestionValid(title, description) == Required(title) /\ Required(description)

\* new Question({ title, description }) with the schema defaults
NewQuestion(id, title, description) ==
    [id |-> id, title |-> title, description |-> description,
     resolved |-> FALSE, upvotes |-> 0]

RemoveAt(seq, i) == SubSeq(seq, 1, i - 1) \o SubSeq(seq, i + 1, Len(seq))

\* Reply.find({ questionId: id })
RepliesOf(id) == SelectSeq(replies, LAMBDA r : r.questionId = id)

------------------------------------------------------------------------------
(* GET /questions *)

ListQuestions(s) ==
    /\ Accepts(s, MaxForumRequests)
    /\ req' = [req EXCEPT ![s] =
                 [op |-> "list", pc |-> "done", status |-> 200,
                  message |-> "", payload |-> questions]]
    /\ started' = started + 1
    /\ UNCHANGED <<users, questions, replies, nextId>>

------------------------------------------------------------------------------
(* POST /questions *)

CreateQuestion(s) ==
    /\ Accepts(s, MaxForumRequests)
    /\ \E title \in Titles, description \in Descriptions :
         LET r == [op |-> "create", pc |-> "save", title |-> title,
                   description |-> description, id |-> 0,
                   status |-> 0, message |-> ""]
         IN IF QuestionValid(title, description)
            THEN /\ nextId <= MaxQuestions
                 /\ questions' =
                      Append(questions, NewQuestion(nextId, title, description))
                 /\ nextId' = nextId + 1
                 /\ req' = [req EXCEPT ![s] =
                              Respond([r EXCEPT !.id = nextId], 201,
                                      "Question created successfully!")]
            ELSE /\ UNCHANGED <<questions, nextId>>
                 /\ req' = [req EXCEPT ![s] =
                              Respond(r, 400, "Question validation failed")]
    /\ started' = started + 1
    /\ UNCHANGED <<users, replies>>

------------------------------------------------------------------------------
(* PATCH /questions/:id *)

\* an update that resets a field missing from the body to its schema default
AssignedReset(loaded, body) ==
    [loaded EXCEPT
        !.resolved = IF "resolved" \in body.has THEN body.resolved ELSE FALSE,
        !.upvotes = IF "upvotes" \in body.has THEN body.upvotes ELSE 0]

\* lines 133-134: the loaded document after the two conditional assignments
Assigned(loaded, body) ==
    [loaded EXCEPT
        !.resolved = IF "resolved" \in body.has THEN body.resolved ELSE @,
        !.upvotes = IF "upvotes" \in body.has THEN body.upvotes ELSE @]

\* the paths Mongoose marks modified: assigned a value that differs from the
\* loaded one
Modified(loaded, question) ==
    {f \in PatchFields : question[f] # loaded[f]}

\* a save() that writes the whole loaded document back
SavedWhole(stored, question, modified) == question

\* question.save() on a loaded document: $set of the modified paths only
Saved(stored, question, modified) ==
    [stored EXCEPT
        !.resolved = IF "resolved" \in modified THEN question.resolved ELSE @,
        !.upvotes = IF "upvotes" \in modified THEN question.upvotes ELSE @]

PatchLookup(s) ==
    /\ \E id \in Ids, body \in PatchBodies :
         LET r == [op |-> "patch", pc |-> "save", id |-> id, body |-> body,
                   status |-> 0, message |-> ""]
         IN req' = [req EXCEPT ![s] =
                IF ~ValidObjectId(id)
                THEN Respond(r, 400, "Cast to ObjectId failed")
                ELSE IF FindById(id) = 0
                THEN Respond(r, 404, "Question not found")
                ELSE [op |-> "patch", pc |-> "save", id |-> id, body |-> body,
                      loaded |-> questions[FindById(id)],
                      question |-> Assigned(questions[FindById(id)], body),
                      status |-> 0, message |-> ""]]
    /\ started' = started + 1
    /\ UNCHANGED <<users, questions, replies, nextId>>

PatchFind(s) ==
    /\ Accepts(s, MaxForumRequests)
    /\ PatchLookup(s)

PatchSave(s) ==
    /\ req[s].op = "patch" /\ req[s].pc = "save"
    /\ LET i == FindById(req[s].id)
           modified == Modified(req[s].loaded, req[s].question)
       IN IF i = 0
          THEN /\ questions' = questions
               /\ req' = [req EXCEPT ![s] =
                            Respond(@, 400, "No document found for query")]
          ELSE /\ questions' =
                    [questions EXCEPT ![i] = Saved(@, req[s].question, modified)]
               /\ req' = [req EXCEPT ![s] =
                            Respond(@, 200, "Question updated successfully!")]
    /\ UNCHANGED <<users, replies, nextId, started>>

------------------------------------------------------------------------------
(* DELETE /questions/:id *)

\* a delete that cascades to the Question's replies
RepliesCascade(id) == SelectSeq(replies, LAMBDA r : r.questionId # id)

\* the Reply collection after Question.findByIdAndDelete(id)
RepliesAfterDelete(id) == replies

DeleteQuestion(s) ==
    /\ Accepts(s, MaxForumRequests)
    /\ \E id \in Ids :
         LET r == [op |-> "delete", pc |-> "delete", id |-> id,
                   status |-> 0, message |-> ""]
         IN IF ~ValidObjectId(id)
            THEN /\ UNCHANGED <<questions, replies>>
                 /\ req' = [req EXCEPT ![s] =
                              Respond(r, 500, "Cast to ObjectId failed")]
            ELSE IF FindById(id) = 0
            THEN /\ UNCHANGED <<questions, replies>>
                 /\ req' = [req EXCEPT ![s] =
                              Respond(r, 404, "Question not found")]
            ELSE /\ questions' = RemoveAt(questions, FindById(id))
                 /\ replies' = RepliesAfterDelete(id)
                 /\ req' = [req EXCEPT ![s] =
                              Respond(r, 200, "Question deleted successfully!")]
    /\ started' = started + 1
    /\ UNCHANGED <<users, nextId>>

------------------------------------------------------------------------------
(* POST /questions/:id/replies *)

\* replies that requests past their lookup are about to save
PendingReplies == Cardinality({t \in Slots : req[t].op = "reply" /\ req[t].pc = "save"})

\* a handler without the `if (!question)` return
ReplyProceedsAlways(i) == TRUE

\* line 163: does the handler go on to save after the lookup found `i`
ReplyProceeds(i) == i # 0

ReplyFind(s) ==
    /\ Accepts(s, MaxForumRequests)
    /\ \E id \in Ids, content \in Contents :
         LET r == [op |-> "reply", pc |-> "save", id |-> id,
                   content |-> content, status |-> 0, message |-> ""]
         IN IF ~ValidObjectId(id)
            THEN req' = [req EXCEPT ![s] =
                           Respond(r, 400, "Cast to ObjectId failed")]
            ELSE IF ~ReplyProceeds(FindById(id))
            THEN req' = [req EXCEPT ![s] =
                           Respond(r, 404, "Question not found")]
            ELSE /\ Len(replies) + PendingReplies < MaxReplies
                 /\ req' = [req EXCEPT ![s] = r]
    /\ started' = started + 1
    /\ UNCHANGED <<users, questions, replies, nextId>>

ReplySave(s) ==
    /\ req[s].op = "reply" /\ req[s].pc = "save"
    /\ IF Required(req[s].content)
       THEN /\ replies' = Append(replies, [content |-> req[s].content,
                                           questionId |-> req[s].id])
            /\ req' = [req EXCEPT ![s] =
                         Respond(@, 201, "Reply added successfully!")]
       ELSE /\ replies' = replies
            /\ req' = [req EXCEPT ![s] =
                         Respond(@, 400, "Reply validation failed")]
    /\ UNCHANGED <<users, questions, nextId, started>>

------------------------------------------------------------------------------
(* GET /questions/:id/replies *)

ListReplies(s) ==
    /\ Accepts(s, MaxForumRequests)
    /\ \E id \in Ids :
         req' = [req EXCEPT ![s] =
                   IF ~ValidObjectId(id)
                   THEN [op |-> "replies", pc |-> "done", id |-> id,
                         status |-> 500, message |-> "Cast to ObjectId failed",
                         payload |-> <<>>]
                   ELSE [op |-> "replies", pc |-> "done", id |-> id,
                         status |-> 200, message |-> "",
                         payload |-> RepliesOf(id)]]
    /\ started' = started + 1
    /\ UNCHANGED <<users, questions, replies, nextId>>

------------------------------------------------------------------------------
(* Specifications *)

Init ==
    /\ users = <<>>
    /\ questions = <<>>
    /\ replies = <<>>
    /\ nextId = 1
    /\ req = [s \in Slots |-> Idle]
    /\ started = 0

UserNext ==
    \E s \in Slots :
        \/ SignupFind(s)
        \/ SignupHash(s)
        \/ SignupSave(s)
        \/ LoginFind(s)
        \/ LoginCompare(s)

SpecUser == Init /\ [][UserNext]_vars

ForumNext ==
    \E s \in Slots :
        \/ ListQuestions(s)
        \/ CreateQuestion(s)
        \/ PatchFind(s)
        \/ PatchSave(s)
        \/ DeleteQuestion(s)
        \/ ReplyFind(s)
        \/ ReplySave(s)
        \/ ListReplies(s)

SpecForum == Init /\ [][ForumNext]_vars

\* Two clients each send one PATCH for the one stored Question.
RaceInit ==
    /\ users = <<>>
    /\ \E resolved \in BOOLEAN, upvotes \in UpvoteValues :
         questions = <<[NewQuestion(1, "T", "D") EXCEPT
                          !.resolved = resolved, !.upvotes = upvotes]>>
    /\ replies = <<>>
    /\ nextId = 2
    /\ req = [s \in Slots |-> Idle]
    /\ started = 0

RacePatchFind(s) ==
    /\ req[s].pc = "idle"
    /\ PatchLookup(s)
    /\ req'[s].id = 1

RaceNext ==
    \E s \in Slots :
        \/ RacePatchFind(s)
        \/ PatchSave(s)

SpecRace == RaceInit /\ [][RaceNext]_vars

------------------------------------------------------------------------------
(* Properties of signup and login, checked under SpecUser *)

\* slot s takes a step that ends a request of kind op
Completes(s, op) ==
    /\ req'[s] # req[s]
    /\ req'[s].op = op
    /\ req'[s].pc = "done"

AllPresent(body) ==
    /\ body.firstName # Undefined /\ body.lastName # Undefined
    /\ body.email # Undefined /\ body.password # Undefined

\* C1: in every reachable state, whatever the interleaving of signups, no two
\* stored User records have the same email.
C1_EmailUnique ==
    \A i, j \in 1..Len(users) : users[i].email = users[j].email => i = j

\* C1 witness: two signups for the same email both passed the existence check;
\* one was stored, the other was refused by the store at save().
C1_Witness ==
    \E s, t \in Slots :
        /\ s # t
        /\ req[s].op = "signup" /\ req[s].pc = "done" /\ req[s].status = 201
        /\ req[t].op = "signup" /\ req[t].pc = "done" /\ req[t].status = 500
        /\ AllPresent(req[t].body)
        /\ req[t].body.email = req[s].body.email

\* C2 (as claimed): a signup with all four fields present either succeeds with
\* 201, and at most one User per email is ever stored, or fails with 400
\* 'Email already in use'.
C2_DuplicateIsConflict ==
    /\ \A e \in Emails :
         Cardinality({i \in 1..Len(users) : users[i].email = e}) <= 1
    /\ \A s \in Slots :
         (req[s].op = "signup" /\ req[s].pc = "done" /\ AllPresent(req[s].body))
            => \/ req[s].status = 201
               \/ req[s].status = 400 /\ req[s].message = "Email already in use"

\* C3 (as claimed): a signup with any of the four fields absent fails with
\* status 400.
C3_MissingFieldIs400 ==
    \A s \in Slots :
        (req[s].op = "signup" /\ req[s].pc = "done" /\ ~AllPresent(req[s].body))
            => req[s].status = 400

\* C4: a login answers 200 exactly when a User with the email is stored and
\* the password verifies against that User's digest; an unknown email and a
\* wrong password both answer 400 'Invalid email or password'; no step of a
\* login changes the User collection.
C4_Login ==
    [][\A s \in Slots :
         /\ (req'[s] # req[s] /\ req'[s].op = "login") => users' = users
         /\ Completes(s, "login") =>
              LET b == req'[s].body
                  verifies == \E u \in Range(users) :
                                 /\ u.email = b.email
                                 /\ u.password.plain = b.password
              IN /\ req'[s].status = 200 <=> verifies
                 /\ (~verifies /\ (~UserExists(b.email) \/ b.password # Undefined))
                       => /\ req'[s].status = 400
                          /\ req'[s].message = "Invalid email or password"
      ]_vars

\* C4 witness: a login for a stored email with a wrong password was answered
\* 400 (the other login outcomes are reached as well, see C4_Login).
C4_Witness ==
    \E s \in Slots :
        /\ req[s].op = "login" /\ req[s].pc = "done" /\ req[s].status = 400
        /\ UserExists(req[s].body.email)
        /\ req[s].body.password # Undefined
        /\ FindUser(req[s].body.email).password.plain # req[s].body.password

------------------------------------------------------------------------------
(* Properties of questions and replies, checked under SpecForum *)

\* the stored Question with this id, in collection qs
Stored(qs, id) == CHOOSE q \in Range(qs) : q.id = id

\* identifiers of Questions that were created and have since been deleted
Deleted == {id \in 1..(nextId - 1) : id \notin QuestionIds}

\* slot s takes the step that is the save() of its PATCH
Saves(s) ==
    /\ req[s].op = "patch" /\ req[s].pc = "save"
    /\ req'[s].pc = "done"

C6_DeletedIs404 ==
    [][/\ \A id \in Deleted : id \notin {q.id : q \in Range(questions')}
       /\ \A s \in Slots :
            ((Completes(s, "patch") \/ Completes(s, "delete"))
               /\ req'[s].id \in Deleted)
                  => req'[s].status = 404
      ]_vars

\* C7 (as claimed): whenever a Reply is persisted, the Question its questionId
\* names exists at that moment.
C7_QuestionExistsAtWrite ==
    [][Len(replies') > Len(replies)
         => replies'[Len(replies')].questionId \in QuestionIds
      ]_vars

\* C7 (amended): add for a well-formed id that resolves to no Question when the
\* handler looks it up answers 404 and persists nothing (a malformed id: 400,
\* nothing persisted); a Reply is persisted only by a request whose lookup
\* found the Question, under that id, so every stored Reply names a Question
\* that existed when its add looked it up (it may be deleted by the time of
\* the write).
C7_QuestionExistedAtLookup ==
    /\ [](\A i \in 1..Len(replies) : replies[i].questionId \in 1..(nextId - 1))
    /\ [][\A s \in Slots :
            /\ (req'[s] # req[s] /\ req'[s].op = "reply" /\ req[s].pc # "save")
                 => /\ replies' = replies
                    /\ req'[s].id \notin QuestionIds
                         => /\ req'[s].pc = "done"
                            /\ req'[s].status =
                                 IF ValidObjectId(req'[s].id) THEN 404 ELSE 400
                    /\ req'[s].id \in QuestionIds => req'[s].pc = "save"
            /\ (req'[s] # req[s] /\ Len(replies') > Len(replies))
                 => /\ req[s].op = "reply" /\ req[s].pc = "save"
                    /\ replies' = Append(replies, [content |-> req[s].content,
                                                   questionId |-> req[s].id])
         ]_vars

\* C7 witness: a Reply was added (201) and is stored, and the Question it
\* names is no longer there.
C7_Witness ==
    \E s \in Slots :
        /\ req[s].op = "reply" /\ req[s].pc = "done" /\ req[s].status = 201
        /\ req[s].id \in Deleted
        /\ \E i \in 1..Len(replies) : replies[i].questionId = req[s].id

\* C8 (as claimed): listing the replies of any id always succeeds.
C8_ListAlwaysSucceeds ==
    \A s \in Slots :
        (req[s].op = "replies" /\ req[s].pc = "done") => req[s].status = 200

\* C8 (amended): for a well-formed id, listing the replies answers 200 with
\* exactly the stored Replies whose questionId is that id, in stored order,
\* whether or not the Question exists (a malformed id answers 500); listing
\* changes nothing, and a delete removes the one Question and no Reply.
C8_ListForQuestion ==
    [][\A s \in Slots :
         /\ Completes(s, "replies")
              => /\ replies' = replies /\ questions' = questions
                 /\ ValidObjectId(req'[s].id)
                      => /\ req'[s].status = 200
                         /\ req'[s].payload =
                              SelectSeq(replies,
                                        LAMBDA r : r.questionId = req'[s].id)
                 /\ ~ValidObjectId(req'[s].id) => req'[s].status = 500
         /\ Completes(s, "delete")
              => /\ replies' = replies
                 /\ Range(questions') =
                      {q \in Range(questions) :
                          req'[s].status = 200 => q.id # req'[s].id}
      ]_vars

\* C8 witness: the replies of a deleted Question were listed, and the list is
\* not empty.
C8_Witness ==
    \E s \in Slots :
        /\ req[s].op = "replies" /\ req[s].pc = "done" /\ req[s].status = 200
        /\ req[s].id \in Deleted
        /\ Len(req[s].payload) > 0

\* C9: create with title and description both non-empty answers 201 and
\* appends exactly one Question with an identifier never used before, that
\* title and description, resolved=false and upvotes=0; create with either
\* empty or absent answers 400 and adds nothing; list answers with the whole
\* collection, so a following list includes the new Question.
C9_CreateRoundTrip ==
    /\ [](\A i, j \in 1..Len(questions) :
            /\ questions[i].id \in 1..(nextId - 1)
            /\ questions[i].id = questions[j].id => i = j)
    /\ [][\A s \in Slots :
            /\ Completes(s, "create")
                 => LET ok == /\ req'[s].title \notin {"", Undefined}
                              /\ req'[s].description \notin {"", Undefined}
                    IN /\ ok => /\ req'[s].status = 201
                                /\ req'[s].id = nextId /\ nextId' > nextId
                                /\ questions' = Append(questions,
                                     [id |-> req'[s].id,
                                      title |-> req'[s].title,
                                      description |-> req'[s].description,
                                      resolved |-> FALSE, upvotes |-> 0])
                       /\ ~ok => /\ req'[s].status = 400
                                 /\ questions' = questions
            /\ Completes(s, "list")
                 => /\ req'[s].status = 200
                    /\ req'[s].payload = questions
                    /\ questions' = questions
         ]_vars

\* C9 witness: after the creates, a list answered with a collection that holds
\* the last created Question, unresolved and with no upvotes.
C9_Witness ==
    \E t \in Slots :
        /\ req[t].op = "list" /\ req[t].pc = "done"
        /\ \E i \in 1..Len(req[t].payload) :
             /\ req[t].payload[i] = NewQuestion(MaxQuestions, "T", "D")
             /\ req[t].payload[i] \in Range(questions)

------------------------------------------------------------------------------
(* Two concurrent updates, checked under SpecRace *)

\* slot s saves last of the two updates s and t, both answered 200
SavesLast(s, t) ==
    /\ s # t
    /\ Saves(s) /\ req'[s].status = 200
    /\ req[t].op = "patch" /\ req[t].pc = "done" /\ req[t].status = 200
    /\ req[t].id = req[s].id
    /\ \A u \in Slots \ {s, t} : req[u].op = "idle"

\* C10 (as claimed): when one update sets only resolved and the other only
\* upvotes the stored Question ends with both new values, and a field both
\* set ends with the value of the update whose save ran last.
C10_LastWriteWins ==
    [][\A s, t \in Slots :
         SavesLast(s, t) =>
            LET after == Stored(questions', req[s].id)
                bs == req[s].body
                bt == req[t].body
            IN /\ (bs.has = {"resolved"} /\ bt.has = {"upvotes"})
                    => after.resolved = bs.resolved /\ after.upvotes = bt.upvotes
               /\ (bs.has = {"upvotes"} /\ bt.has = {"resolved"})
                    => after.upvotes = bs.upvotes /\ after.resolved = bt.resolved
               /\ \A f \in bs.has \cap bt.has : after[f] = bs[f]
      ]_vars

\* C10 (amended): when one update sets only resolved and the other only
\* upvotes the stored Question ends with both new values; a field both set
\* ends with the value of the last of the two whose value differs from the
\* one it had loaded (an update asking for the value it loaded writes
\* nothing), and keeps the loaded value when neither differs.
C10_PerFieldLastWrite ==
    [][\A s, t \in Slots :
         SavesLast(s, t) =>
            LET after == Stored(questions', req[s].id)
                bs == req[s].body
                bt == req[t].body
            IN /\ (bs.has = {"resolved"} /\ bt.has = {"upvotes"})
                    => after.resolved = bs.resolved /\ after.upvotes = bt.upvotes
               /\ (bs.has = {"upvotes"} /\ bt.has = {"resolved"})
                    => after.upvotes = bs.upvotes /\ after.resolved = bt.resolved
               /\ \A f \in bs.has \cap bt.has :
                    after[f] = IF bs[f] # req[s].loaded[f] THEN bs[f]
                               ELSE IF bt[f] # req[t].loaded[f] THEN bt[f]
                               ELSE req[s].loaded[f]
      ]_vars

\* C10 witness: both updates loaded the same Question before either saved, one
\* set only resolved and the other only upvotes, both changed their field, and
\* the stored Question has both new values.
C10_Witness ==
    \E s, t \in Slots :
        /\ s # t
        /\ req[s].op = "patch" /\ req[s].pc = "done" /\ req[s].status = 200
        /\ req[t].op = "patch" /\ req[t].pc = "done" /\ req[t].status = 200
        /\ req[s].loaded = req[t].loaded
        /\ req[s].body.has = {"resolved"} /\ req[t].body.has = {"upvotes"}
        /\ req[s].body.resolved # req[s].loaded.resolved
        /\ req[t].body.upvotes # req[t].loaded.upvotes
        /\ Stored(questions, 1).resolved = req[s].body.resolved
        /\ Stored(questions, 1).upvotes = req[t].body.upvotes

====
